---- MODULE Spec2Model ----
(***************************************************************************)
(* Model of flood_monitor.py: the TTL cache, the plausibility validator,   *)
(* the three real-time water-level adapters (RID HYDRO-1, ThaiWater API,   *)
(* Chiang Mai ThaiWater), the Open-Meteo forecast adapter, the forecast    *)
(* analysis and the per-station poll cycle of main(); and of               *)
(* get_thaiwater_data_with_retry of unnamed/part_000.                      *)
(*                                                                         *)
(* Units: water levels are in tenths of a metre (3.7 m = 37), discharges   *)
(* in m3/s, time in minutes.  A network response is an input of the step   *)
(* that issues the request.                                                *)
(***************************************************************************)
EXTENDS Integers, Sequences, FiniteSets, TLC

VARIABLES LOCATIONS, environ, reachable, now, cache, pc, idx,
          rid_info, thaiwater_info, website_info, data, analysis,
          has_water_level_alert, classified, any_alerts, any_errors,
          sent, delivered, lastCall,
          attempt, max_attempts, resolutions

vars == <<LOCATIONS, environ, reachable, now, cache, pc, idx,
          rid_info, thaiwater_info, website_info, data, analysis,
          has_water_level_alert, classified, any_alerts, any_errors,
          sent, delivered, lastCall,
          attempt, max_attempts, resolutions>>

(***************************************************************************)
(* Bounds of the model.                                                    *)
(***************************************************************************)
MaxStations == 2
MaxRows == 2
MaxDays == 2
MaxItems == 1
MaxReachable == 2
MaxUnset == 1
MaxSeries == 3
MaxAttempts == 2

(***************************************************************************)
(* Program constants.                                                      *)
(***************************************************************************)
CACHE_TTL_MINUTES == 15
FORECAST_TTL_MINUTES == 60
BandMin == 5
BandMax == 100
WL_WATCH == 30
WL_WARNING == 35
WL_CRITICAL == 37
Q_WATCH == 400
Q_WARNING == 500
Q_CRITICAL == 600
RETRIES == 3
DEFAULT_MAX_ATTEMPTS == 2

\* Python None, for a record-valued result and for a numeric field.
None == [tag |-> "None"]
Missing == -1

\* Python truthiness of an optional number: None and 0 are falsy.
TruthyNum(v) == v # Missing /\ v # 0

\* An empty JSON payload ({} or []), which Python treats as falsy.
EmptyPayload == [kind |-> "empty"]

\* Python truthiness of an optional payload or result.
Truthy(x) == x # None /\ x # EmptyPayload

(***************************************************************************)
(* Input domains: the values external providers may answer with.           *)
(***************************************************************************)
\* Water levels a provider may report: zero, normal, watch, critical, and
\* one above the plausibility band.
Levels == {0, 29, 38, 120}
Discharges == {300, 450, 650}
StationCodes == {"P.1", "P.67"}

RECURSIVE SeqsUpTo(_, _)
SeqsUpTo(S, n) ==
    IF n = 0 THEN {<<>>}
    ELSE LET shorter == SeqsUpTo(S, n - 1)
         IN  shorter \cup {Append(q, x) : q \in {r \in shorter : Len(r) = n - 1}, x \in S}

(***************************************************************************)
(* Cache: key -> (data, timestamp).                                        *)
(***************************************************************************)
\* Faulty variant: the age is taken in seconds and compared with a TTL in
\* minutes, so an entry is fresh only in the minute it was stored.
get_cached_data_age_in_seconds(key, ttl_minutes) ==
    IF key \in DOMAIN cache /\ (now - cache[key].timestamp) * 60 < ttl_minutes
    THEN cache[key].data
    ELSE None

\* Faulty variant: an entry whose age equals the TTL is still served.
get_cached_data_inclusive(key, ttl_minutes) ==
    IF key \in DOMAIN cache /\ now - cache[key].timestamp <= ttl_minutes
    THEN cache[key].data
    ELSE None

\* get_cached_data, lines 93-100: the entry if younger than the TTL.
get_cached_data(key, ttl_minutes) ==
    IF key \in DOMAIN cache /\ now - cache[key].timestamp < ttl_minutes
    THEN cache[key].data
    ELSE None

set_cached_data(c, key, d) ==
    [k \in (DOMAIN c) \cup {key} |->
        IF k = key THEN [data |-> d, timestamp |-> now] ELSE c[k]]

(***************************************************************************)
(* Validator.                                                              *)
(***************************************************************************)
validate_water_level(value) == BandMin <= value /\ value <= BandMax

\* The elements of a sequence that satisfy the plausibility check, in order.
RECURSIVE ValidPoints(_)
ValidPoints(rows) ==
    IF rows = <<>> THEN <<>>
    ELSE IF validate_water_level(Head(rows))
         THEN <<Head(rows)>> \o ValidPoints(Tail(rows))
         ELSE ValidPoints(Tail(rows))

(***************************************************************************)
(* RID HYDRO-1 adapter.  A response is a request error, a page without a   *)
(* table, or a table whose rows carry a level.                             *)
(***************************************************************************)
RidResponses ==
    {[kind |-> "error"], [kind |-> "notable"]}
    \cup {[kind |-> "table", rows |-> r] : r \in SeqsUpTo(Levels, MaxRows)}

RidResult(station_code, level) ==
    [station_code |-> station_code, water_level |-> level,
     source |-> "RID HYDRO-1", quality |-> "high"]

\* One pass of the loop over urls_to_try: the data points of one response.
RidDataPoints(resp) ==
    IF resp.kind = "table" THEN ValidPoints(resp.rows) ELSE <<>>

\* resps is the sequence of responses of the two endpoints, in order.
get_rid_hydro1_data(station_code, resps) ==
    LET cache_key == <<"rid_hydro1", station_code>>
        cached == get_cached_data(cache_key, CACHE_TTL_MINUTES)
        p1 == RidDataPoints(resps[1])
        p2 == RidDataPoints(resps[2])
    IN  IF Truthy(cached)
        THEN [ret |-> cached, cache |-> cache, requests |-> 0, hit |-> TRUE]
        ELSE IF p1 # <<>>
        THEN LET result == RidResult(station_code, p1[1])
             IN  [ret |-> result, cache |-> set_cached_data(cache, cache_key, result),
                  requests |-> 1, hit |-> FALSE]
        ELSE IF p2 # <<>>
        THEN LET result == RidResult(station_code, p2[1])
             IN  [ret |-> result, cache |-> set_cached_data(cache, cache_key, result),
                  requests |-> 2, hit |-> FALSE]
        ELSE [ret |-> None, cache |-> cache, requests |-> 2, hit |-> FALSE]

(***************************************************************************)
(* ThaiWater API adapter.  A response is a 404, a 401, a request error or  *)
(* a JSON payload; a payload is {} , an object without "waterlevel", an    *)
(* empty "waterlevel" array, or one observation.                           *)
(***************************************************************************)
ThaiwaterPayloads ==
    {EmptyPayload, [kind |-> "nokey"], [kind |-> "emptyarr"]}
    \cup {[kind |-> "obs", waterlevel |-> v] : v \in Levels \cup {Missing}}

ThaiwaterResponses ==
    {[kind |-> "404"], [kind |-> "401"], [kind |-> "error"]}
    \cup {[kind |-> "json", data |-> d] : d \in ThaiwaterPayloads}

get_thaiwater_data(station_code, agency_code, resp) ==
    LET cache_key == <<"thaiwater", station_code, agency_code>>
        cached == get_cached_data(cache_key, CACHE_TTL_MINUTES)
    IN  IF Truthy(cached)
        THEN [ret |-> cached, cache |-> cache, requests |-> 0, hit |-> TRUE]
        ELSE IF resp.kind = "json"
        THEN [ret |-> resp.data, cache |-> set_cached_data(cache, cache_key, resp.data),
              requests |-> 1, hit |-> FALSE]
        ELSE [ret |-> None, cache |-> cache, requests |-> 1, hit |-> FALSE]

parse_thaiwater_data(d) ==
    IF ~Truthy(d) THEN None
    ELSE IF d.kind = "nokey" THEN None
    ELSE IF d.kind = "emptyarr" THEN None
    ELSE LET water_level == d.waterlevel
         IN  IF TruthyNum(water_level) /\ ~validate_water_level(water_level)
             THEN None
             ELSE [water_level |-> water_level,
                   source |-> "ThaiWater API", quality |-> "medium"]

(***************************************************************************)
(* Chiang Mai ThaiWater adapter: API endpoints first, HTML scraping next.  *)
(***************************************************************************)
\* An item of an API payload: its station code and the water level under the
\* keys 'water_level', 'waterlevel', 'wl' and 'value' (Missing: key absent).
Items ==
    [station_code : StationCodes, water_level : {Missing, 0, 29, 120},
     waterlevel : {Missing}, wl : {Missing}, value : {Missing, 38}]

ItemLists == SeqsUpTo(Items, MaxItems)

\* Python's  a or b or c or d : the first truthy operand, else the last one.
RECURSIVE OrChain(_)
OrChain(vals) ==
    IF Len(vals) = 1 THEN vals[1]
    ELSE IF TruthyNum(Head(vals)) THEN Head(vals) ELSE OrChain(Tail(vals))

\* The station_info entries parse_chiangmai_api_data appends, in order.
RECURSIVE ParsedStations(_, _)
ParsedStations(items, station_id) ==
    IF items = <<>> THEN <<>>
    ELSE LET item == Head(items)
             water_level == OrChain(<<item.water_level, item.waterlevel,
                                      item.wl, item.value>>)
             rest == ParsedStations(Tail(items), station_id)
         IN  IF station_id # "" /\ item.station_code # station_id THEN rest
             ELSE IF water_level = Missing THEN rest
             ELSE IF ~validate_water_level(water_level) THEN rest
             ELSE <<[station_code |-> item.station_code,
                     water_level |-> water_level,
                     source |-> "Chiang Mai ThaiWater API",
                     quality |-> "medium"]>> \o rest

\* A list of stations, or None when the payload is empty or nothing was kept.
parse_chiangmai_api_data(items, station_id) ==
    IF items = <<>> THEN None
    ELSE LET stations == ParsedStations(items, station_id)
         IN  IF stations = <<>> THEN None ELSE [stations |-> stations]

\* A table row of the HTML page: the station code found in its cells and the
\* numbers its cells yield, in cell order.
Rows == [station_match : StationCodes, numbers : {<<0>>, <<29>>, <<120, 38>>}]
RowLists == {<<>>} \cup {<<r>> : r \in Rows}

HtmlResponses ==
    {[kind |-> "error"]}
    \cup {[kind |-> "page", script |-> il, rows |-> rl] :
            il \in ItemLists, rl \in RowLists}

\* The first number of the row that passes the sanity check, else Missing.
RowWaterLevel(numbers) ==
    LET valid == ValidPoints(numbers)
    IN  IF valid = <<>> THEN Missing ELSE valid[1]

RECURSIVE TableStations(_, _)
TableStations(rows, station_id) ==
    IF rows = <<>> THEN <<>>
    ELSE LET row == Head(rows)
             water_level == RowWaterLevel(row.numbers)
             rest == TableStations(Tail(rows), station_id)
         IN  IF station_id # "" /\ row.station_match # station_id THEN rest
             ELSE IF water_level = Missing THEN rest
             ELSE <<[station_code |-> row.station_match,
                     water_level |-> water_level,
                     source |-> "Chiang Mai ThaiWater Website (Table)",
                     quality |-> "medium"]>> \o rest

\* stations_data of the HTML fallback: script JSON first, then table rows.
HtmlStations(page, station_id) ==
    LET parsed == parse_chiangmai_api_data(page.script, station_id)
    IN  (IF parsed = None THEN <<>> ELSE parsed.stations)
        \o TableStations(page.rows, station_id)

\* api is the payload of the first API endpoint that answered 200 (None when
\* none did); html is the response of the page request.
\* Faulty variant: the whole list of stations is cached, not its first one.
get_chiangmai_thaiwater_data_caching_list(station_id, api, html) ==
    LET cache_key == <<"chiangmai", station_id>>
        cached == get_cached_data(cache_key, CACHE_TTL_MINUTES)
        parsed == IF api = None THEN None
                  ELSE parse_chiangmai_api_data(api.items, station_id)
        stations_data == IF html.kind = "page"
                         THEN HtmlStations(html, station_id) ELSE <<>>
    IN  IF cached # None
        THEN [ret |-> [stations |-> <<cached>>], cache |-> cache,
              requests |-> 0, hit |-> TRUE]
        ELSE IF parsed # None
        THEN [ret |-> parsed,
              cache |-> set_cached_data(cache, cache_key, parsed.stations),
              requests |-> 1, hit |-> FALSE]
        ELSE IF stations_data # <<>>
        THEN [ret |-> [stations |-> stations_data],
              cache |-> set_cached_data(cache, cache_key, stations_data),
              requests |-> 2, hit |-> FALSE]
        ELSE [ret |-> None, cache |-> cache, requests |-> 2, hit |-> FALSE]

get_chiangmai_thaiwater_data(station_id, api, html) ==
    LET cache_key == <<"chiangmai", station_id>>
        cached == get_cached_data(cache_key, CACHE_TTL_MINUTES)
        parsed == IF api = None THEN None
                  ELSE parse_chiangmai_api_data(api.items, station_id)
        stations_data == IF html.kind = "page"
                         THEN HtmlStations(html, station_id) ELSE <<>>
    IN  IF Truthy(cached)
        THEN [ret |-> [stations |-> <<cached>>], cache |-> cache,
              requests |-> 0, hit |-> TRUE]
        ELSE IF parsed # None
        THEN [ret |-> parsed,
              cache |-> set_cached_data(cache, cache_key, parsed.stations[1]),
              requests |-> 1, hit |-> FALSE]
        ELSE IF stations_data # <<>>
        THEN [ret |-> [stations |-> stations_data],
              cache |-> set_cached_data(cache, cache_key, stations_data[1]),
              requests |-> 2, hit |-> FALSE]
        ELSE [ret |-> None, cache |-> cache, requests |-> 2, hit |-> FALSE]

(***************************************************************************)
(* Open-Meteo forecast adapter and the forecast analysis.                  *)
(***************************************************************************)
\* A payload is {}, an object without "daily", or a "daily" object whose
\* "time" array has ntimes entries beside the river_discharge array (the time
\* array is either as long as the forecast horizon or missing).
ForecastPayloads ==
    {EmptyPayload, [kind |-> "nodaily"]}
    \cup {[kind |-> "daily", ntimes |-> MaxDays, river_discharge |-> q] :
            q \in SeqsUpTo(Discharges, MaxDays)}
    \cup {[kind |-> "daily", ntimes |-> 0, river_discharge |-> <<q>>] :
            q \in Discharges}

ForecastResponses ==
    {[kind |-> "error"]} \cup {[kind |-> "json", data |-> d] : d \in ForecastPayloads}

\* Faulty variant: a failed request hands the error back instead of None.
get_flood_forecast_error_object(coord, resp) ==
    LET cache_key == <<"forecast", coord>>
        cached == get_cached_data(cache_key, FORECAST_TTL_MINUTES)
    IN  IF Truthy(cached)
        THEN [ret |-> cached, cache |-> cache, requests |-> 0, hit |-> TRUE]
        ELSE IF resp.kind = "json"
        THEN [ret |-> resp.data, cache |-> set_cached_data(cache, cache_key, resp.data),
              requests |-> 1, hit |-> FALSE]
        ELSE [ret |-> resp, cache |-> cache, requests |-> 1, hit |-> FALSE]

\* get_flood_forecast looking its entry up with the default TTL.
get_flood_forecast_default_ttl(coord, resp) ==
    LET cache_key == <<"forecast", coord>>
        cached == get_cached_data(cache_key, CACHE_TTL_MINUTES)
    IN  IF Truthy(cached)
        THEN [ret |-> cached, cache |-> cache, requests |-> 0, hit |-> TRUE]
        ELSE IF resp.kind = "json"
        THEN [ret |-> resp.data, cache |-> set_cached_data(cache, cache_key, resp.data),
              requests |-> 1, hit |-> FALSE]
        ELSE [ret |-> None, cache |-> cache, requests |-> 1, hit |-> FALSE]

get_flood_forecast(coord, resp) ==
    LET cache_key == <<"forecast", coord>>
        cached == get_cached_data(cache_key, FORECAST_TTL_MINUTES)
    IN  IF Truthy(cached)
        THEN [ret |-> cached, cache |-> cache, requests |-> 0, hit |-> TRUE]
        ELSE IF resp.kind = "json"
        THEN [ret |-> resp.data, cache |-> set_cached_data(cache, cache_key, resp.data),
              requests |-> 1, hit |-> FALSE]
        ELSE [ret |-> None, cache |-> cache, requests |-> 1, hit |-> FALSE]

get_water_level_alert_status(water_level) ==
    IF water_level >= WL_CRITICAL THEN "critical"
    ELSE IF water_level >= WL_WARNING THEN "warning"
    ELSE IF water_level >= WL_WATCH THEN "watch"
    ELSE "normal"

\* Faulty variant: a discharge equal to a cutoff falls in the class below.
get_alert_level_strict(discharge) ==
    IF discharge > Q_CRITICAL THEN "critical"
    ELSE IF discharge > Q_WARNING THEN "warning"
    ELSE IF discharge > Q_WATCH THEN "watch"
    ELSE "normal"

get_alert_level(discharge) ==
    IF discharge >= Q_CRITICAL THEN "critical"
    ELSE IF discharge >= Q_WARNING THEN "warning"
    ELSE IF discharge >= Q_WATCH THEN "watch"
    ELSE "normal"

\* priority = {"critical": 3, "warning": 2, "watch": 1, "normal": 0}
priority(level) ==
    CASE level = "critical" -> 3
      [] level = "warning" -> 2
      [] level = "watch" -> 1
      [] OTHER -> 0

Min(a, b) == IF a <= b THEN a ELSE b

\* forecast_data: one item per pair of zip(times, discharges).
ForecastData(d) ==
    [i \in 1..Min(d.ntimes, Len(d.river_discharge)) |->
        [day |-> i - 1, discharge |-> d.river_discharge[i],
         level |-> get_alert_level(d.river_discharge[i])]]

\* Faulty variant: days at watch level are not taken as alerts.
RECURSIVE AlertItemsAboveWatch(_)
AlertItemsAboveWatch(items) ==
    IF items = <<>> THEN <<>>
    ELSE IF Head(items).level \notin {"normal", "watch"}
         THEN <<Head(items)>> \o AlertItemsAboveWatch(Tail(items))
         ELSE AlertItemsAboveWatch(Tail(items))

\* The items the loop of lines 736-751 appends to alerts, in order.
RECURSIVE AlertItems(_)
AlertItems(items) ==
    IF items = <<>> THEN <<>>
    ELSE IF Head(items).level # "normal"
         THEN <<Head(items)>> \o AlertItems(Tail(items))
         ELSE AlertItems(Tail(items))

\* Faulty variant: a later item of equal priority replaces the best so far.
RECURSIVE MaxFoldLast(_, _)
MaxFoldLast(best, rest) ==
    IF rest = <<>> THEN best
    ELSE MaxFoldLast(IF priority(Head(rest).level) >= priority(best.level)
                     THEN Head(rest) ELSE best,
                     Tail(rest))

\* max(iterable, key=...): the items are visited in order and an item
\* replaces the best so far only when its key is strictly greater.
RECURSIVE MaxFold(_, _)
MaxFold(best, rest) ==
    IF rest = <<>> THEN best
    ELSE MaxFold(IF priority(Head(rest).level) > priority(best.level)
                 THEN Head(rest) ELSE best,
                 Tail(rest))

\* highest_alert = max(alerts, key=lambda x: priority[x["level"]])
MaxAlert(alerts) == MaxFold(Head(alerts), Tail(alerts))

\* Faulty variant: only the discharge array is checked, so a payload without
\* its time array yields an analysis with no point and no alert.
analyze_forecast_unchecked_times(d) ==
    IF ~Truthy(d) \/ d.kind # "daily" THEN None
    ELSE IF d.river_discharge = <<>> THEN None
    ELSE LET forecast_data == ForecastData(d)
             alerts == AlertItems(forecast_data)
         IN  IF alerts # <<>>
             THEN [current_discharge |-> d.river_discharge[1],
                   current_level |-> get_alert_level(d.river_discharge[1]),
                   forecast_data |-> forecast_data,
                   has_alerts |-> Len(alerts) > 0,
                   alerts |-> alerts,
                   highest_alert |-> MaxAlert(alerts)]
             ELSE [current_discharge |-> d.river_discharge[1],
                   current_level |-> get_alert_level(d.river_discharge[1]),
                   forecast_data |-> forecast_data,
                   has_alerts |-> Len(alerts) > 0,
                   alerts |-> alerts]

\* Faulty variant: a payload without usable data is analysed as a forecast
\* with no point, all normal.
analyze_forecast_defaulting(d) ==
    IF ~Truthy(d) \/ d.kind # "daily" \/ d.ntimes = 0 \/ d.river_discharge = <<>>
    THEN [current_discharge |-> 0, current_level |-> "normal",
          forecast_data |-> <<>>, has_alerts |-> FALSE, alerts |-> <<>>]
    ELSE LET forecast_data == ForecastData(d)
             alerts == AlertItems(forecast_data)
         IN  IF alerts # <<>>
             THEN [current_discharge |-> d.river_discharge[1],
                   current_level |-> get_alert_level(d.river_discharge[1]),
                   forecast_data |-> forecast_data,
                   has_alerts |-> Len(alerts) > 0,
                   alerts |-> alerts,
                   highest_alert |-> MaxAlert(alerts)]
             ELSE [current_discharge |-> d.river_discharge[1],
                   current_level |-> get_alert_level(d.river_discharge[1]),
                   forecast_data |-> forecast_data,
                   has_alerts |-> Len(alerts) > 0,
                   alerts |-> alerts]

\* The result lacks the key highest_alert when there are no alerts.
analyze_forecast(d) ==
    IF ~Truthy(d) \/ d.kind # "daily" THEN None
    ELSE IF d.ntimes = 0 \/ d.river_discharge = <<>> THEN None
    ELSE LET forecast_data == ForecastData(d)
             alerts == AlertItems(forecast_data)
         IN  IF alerts # <<>>
             THEN [current_discharge |-> d.river_discharge[1],
                   current_level |-> get_alert_level(d.river_discharge[1]),
                   forecast_data |-> forecast_data,
                   has_alerts |-> Len(alerts) > 0,
                   alerts |-> alerts,
                   highest_alert |-> MaxAlert(alerts)]
             ELSE [current_discharge |-> d.river_discharge[1],
                   current_level |-> get_alert_level(d.river_discharge[1]),
                   forecast_data |-> forecast_data,
                   has_alerts |-> Len(alerts) > 0,
                   alerts |-> alerts]

(***************************************************************************)
(* main(): one poll cycle over LOCATIONS.                                  *)
(***************************************************************************)
\* A configured location; "" stands for an absent (falsy) field.
StationP1 == [station_code |-> "P.1", agency_code |-> "G07003",
              web_station_id |-> "P.1", coord |-> "18.73,98.91"]
StationBare == [station_code |-> "", agency_code |-> "",
                web_station_id |-> "", coord |-> "18.73,98.91"]

LocationLists == SeqsUpTo({StationP1, StationBare}, MaxStations)

location == LOCATIONS[idx]

\* Faulty variant: a missing real-time reading counts as an alert.
HasWaterLevelAlert_when_absent(rid) ==
    rid = None \/ rid.water_level >= WL_WATCH

\* has_water_level_alert of lines 1129-1133.
HasWaterLevelAlert(rid) ==
    rid # None /\ rid.water_level >= WL_WATCH

\* The message main sends once the forecast is analysed (lines 1137-1158):
\* its kind, and for an alert the level of analysis["highest_alert"] shown as
\* the alert level.  create_alert_message raises KeyError when the analysis
\* has no highest_alert.
ALWAYS_SEND_REPORT == TRUE

\* The test of line 1138.
AlertDetected(an, rid) == an.has_alerts \/ HasWaterLevelAlert(rid)

Raises(an, rid) ==
    AlertDetected(an, rid) /\ "highest_alert" \notin DOMAIN an

AlertMessage(an, rid) ==
    [station |-> idx, kind |-> "alert", disable_notification |-> FALSE,
     level |-> an.highest_alert.level,
     rid_status |-> IF rid # None
                    THEN get_water_level_alert_status(rid.water_level)
                    ELSE "none"]

SummaryMessage(an, rid) ==
    [station |-> idx, kind |-> "summary", disable_notification |-> TRUE,
     level |-> "normal",
     rid_status |-> IF rid # None
                    THEN get_water_level_alert_status(rid.water_level)
                    ELSE "none"]

ErrorMessage ==
    [station |-> idx, kind |-> "error", disable_notification |-> FALSE,
     level |-> "none", rid_status |-> "none"]

\* The providers; a run's unreachable providers answer every request with a
\* connection error.
Providers == {"rid", "thaiwater", "website", "forecast"}

\* The services a run talks to: the providers and the Telegram Bot API.
Services == Providers \cup {"telegram"}

Answers(provider, responses) ==
    IF provider \in reachable THEN responses ELSE {[kind |-> "error"]}

\* The names read from os.environ; environ holds those that are set.
EnvNames == {"THAIWATER_API_KEY", "TELEGRAM_BOT_TOKEN", "TELEGRAM_CHAT_ID"}

\* The answer to the POST of sendMessage: accepted when the Bot API is
\* reachable in this run, a request error when it is not.
TelegramAnswers ==
    IF "telegram" \in reachable THEN {[kind |-> "ok"]} ELSE {[kind |-> "error"]}

\* Faulty variant: the request is posted whether or not the credentials are
\* configured.
send_telegram_message_unchecked(message, resp) == resp.kind = "ok"

\* send_telegram_message, lines 792-829: False without the credentials (no
\* request is made), else whether the POST went through.
send_telegram_message(message, resp) ==
    IF "TELEGRAM_BOT_TOKEN" \notin environ \/ "TELEGRAM_CHAT_ID" \notin environ
    THEN FALSE
    ELSE resp.kind = "ok"

\* The steps by which time advances between two iterations of the loop.
TickSteps == {CACHE_TTL_MINUTES - 1, CACHE_TTL_MINUTES, FORECAST_TTL_MINUTES}

\* lastCall logs the last adapter call: the function, the value it returned,
\* the network stages it went through and whether the cache answered.
NoCall == [fn |-> "none", ret |-> None, requests |-> 0, hit |-> FALSE]

Init ==
    /\ LOCATIONS \in LocationLists
    /\ environ \in SUBSET EnvNames
    /\ Cardinality(EnvNames \ environ) <= MaxUnset
    /\ reachable \in SUBSET Services
    /\ Len(LOCATIONS) > 1 => /\ Cardinality(reachable) <= MaxReachable
                             /\ environ = EnvNames
    /\ now = 0
    /\ cache = <<>>
    /\ pc = "loop"
    /\ idx = 0
    /\ rid_info = None
    /\ thaiwater_info = None
    /\ website_info = None
    /\ data = None
    /\ analysis = None
    /\ has_water_level_alert = FALSE
    /\ classified = None
    /\ any_alerts = FALSE
    /\ any_errors = FALSE
    /\ sent = <<>>
    /\ delivered = <<>>
    /\ lastCall = NoCall
    /\ attempt = 0
    /\ max_attempts = DEFAULT_MAX_ATTEMPTS
    /\ resolutions = <<>>

\* Time passes between two iterations of the loop.
Tick ==
    /\ pc = "loop"
    /\ idx \in 1..(Len(LOCATIONS) - 1)
    /\ pc' = "waited"
    /\ \E d \in TickSteps : now' = now + d
    /\ UNCHANGED <<attempt, max_attempts, resolutions,
                   LOCATIONS, environ, reachable, cache, idx, rid_info,
                   thaiwater_info, website_info, data, analysis,
                   has_water_level_alert, classified, any_alerts, any_errors,
                   sent, delivered, lastCall>>

\* for location in LOCATIONS: the next location (whose locals start unset and
\* whose messages are logged in sent), or the end of the loop.
MainLoop ==
    /\ pc \in {"loop", "waited"}
    /\ IF idx < Len(LOCATIONS)
       THEN /\ idx' = idx + 1
            /\ pc' = "rid"
            /\ rid_info' = None
            /\ thaiwater_info' = None
            /\ website_info' = None
            /\ data' = None
            /\ analysis' = None
            /\ has_water_level_alert' = FALSE
            /\ classified' = None
            /\ sent' = <<>>
            /\ delivered' = <<>>
            /\ lastCall' = NoCall
       ELSE /\ pc' = "exit0"
            /\ UNCHANGED <<idx, rid_info, thaiwater_info, website_info, data,
                           analysis, has_water_level_alert, classified, sent,
                           delivered, lastCall>>
    /\ UNCHANGED <<attempt, max_attempts, resolutions,
                   LOCATIONS, environ, reachable, now, cache, any_alerts,
                   any_errors>>

\* Lines 1065-1069.
MainRid ==
    /\ pc = "rid"
    /\ pc' = "thaiwater"
    /\ IF location.station_code # ""
       THEN \E r1 \in Answers("rid", RidResponses) :
              \E r2 \in (IF RidDataPoints(r1) # <<>> THEN {r1}
                         ELSE Answers("rid", RidResponses)) :
                LET call == get_rid_hydro1_data(location.station_code, <<r1, r2>>)
                IN  /\ rid_info' = call.ret
                    /\ cache' = call.cache
                    /\ lastCall' = [fn |-> "rid", ret |-> call.ret,
                                    requests |-> call.requests,
                                    hit |-> call.hit]
       ELSE UNCHANGED <<rid_info, cache, lastCall>>
    /\ UNCHANGED <<attempt, max_attempts, resolutions,
                   LOCATIONS, environ, reachable, now, idx, thaiwater_info,
                   website_info, data, analysis, has_water_level_alert,
                   classified, any_alerts, any_errors, sent, delivered>>

\* Lines 1071-1085.
MainThaiwater ==
    /\ pc = "thaiwater"
    /\ pc' = "website"
    /\ IF location.station_code # "" /\ location.agency_code # ""
       THEN \E resp \in Answers("thaiwater", ThaiwaterResponses) :
                LET call == get_thaiwater_data(location.station_code,
                                               location.agency_code, resp)
                IN  /\ thaiwater_info' = IF Truthy(call.ret)
                                         THEN parse_thaiwater_data(call.ret)
                                         ELSE None
                    /\ cache' = call.cache
                    /\ lastCall' = [fn |-> "thaiwater", ret |-> call.ret,
                                    requests |-> call.requests,
                                    hit |-> call.hit]
       ELSE UNCHANGED <<thaiwater_info, cache, lastCall>>
    /\ UNCHANGED <<attempt, max_attempts, resolutions,
                   LOCATIONS, environ, reachable, now, idx, rid_info,
                   website_info, data, analysis, has_water_level_alert,
                   classified, any_alerts, any_errors, sent, delivered>>

\* The payload of the first API endpoint that answers 200, None otherwise.
ApiAnswers ==
    IF "website" \in reachable
    THEN {None} \cup {[items |-> il] : il \in ItemLists}
    ELSE {None}

\* Lines 1087-1099, up to the answer of the API endpoints: a cache hit or a
\* parsed API payload ends the call; otherwise the HTML page is requested.
MainWebsite ==
    /\ pc = "website"
    /\ IF location.web_station_id # ""
       THEN \E api \in ApiAnswers :
                LET call == get_chiangmai_thaiwater_data(location.web_station_id,
                                                         api, [kind |-> "error"])
                IN  IF call.ret # None
                    THEN /\ website_info' = call.ret.stations[1]
                         /\ cache' = call.cache
                         /\ lastCall' = [fn |-> "website", ret |-> call.ret,
                                         requests |-> call.requests,
                                         hit |-> call.hit]
                         /\ pc' = "forecast"
                    ELSE /\ pc' = "website_html"
                         /\ UNCHANGED <<website_info, cache, lastCall>>
       ELSE /\ pc' = "forecast"
            /\ UNCHANGED <<website_info, cache, lastCall>>
    /\ UNCHANGED <<attempt, max_attempts, resolutions,
                   LOCATIONS, environ, reachable, now, idx, rid_info,
                   thaiwater_info, data, analysis, has_water_level_alert,
                   classified, any_alerts, any_errors, sent, delivered>>

\* Lines 1087-1099, from the HTML fallback on (no API payload was parsed).
MainWebsiteHtml ==
    /\ pc = "website_html"
    /\ pc' = "forecast"
    /\ \E html \in Answers("website", HtmlResponses) :
            LET call == get_chiangmai_thaiwater_data(location.web_station_id,
                                                     None, html)
            IN  /\ website_info' = IF call.ret # None
                                   THEN call.ret.stations[1] ELSE None
                /\ cache' = call.cache
                /\ lastCall' = [fn |-> "website", ret |-> call.ret,
                                requests |-> call.requests,
                                hit |-> call.hit]
    /\ UNCHANGED <<attempt, max_attempts, resolutions,
                   LOCATIONS, environ, reachable, now, idx, rid_info,
                   thaiwater_info, data, analysis, has_water_level_alert,
                   classified, any_alerts, any_errors, sent, delivered>>

\* Lines 1107-1158: fetch and analyse the forecast, decide, send.  sent logs
\* the messages handed to send_telegram_message and delivered what it
\* returned (main ignores it).
MainForecast ==
    /\ pc = "forecast"
    /\ \E resp \in Answers("forecast", ForecastResponses) :
       \E post \in TelegramAnswers :
        LET call == get_flood_forecast(location.coord, resp)
            an == IF call.ret = None THEN None ELSE analyze_forecast(call.ret)
        IN  /\ data' = call.ret
            /\ cache' = call.cache
            /\ lastCall' = [fn |-> "forecast", ret |-> call.ret,
                            requests |-> call.requests,
                            hit |-> call.hit]
            /\ analysis' = an
            /\ IF an = None
               THEN /\ any_errors' = TRUE
                    /\ sent' = Append(sent, ErrorMessage)
                    /\ delivered' = Append(delivered,
                                           send_telegram_message(ErrorMessage, post))
                    /\ pc' = "loop"
                    /\ UNCHANGED <<has_water_level_alert, classified, any_alerts>>
               ELSE /\ has_water_level_alert' = HasWaterLevelAlert(rid_info)
                    /\ classified' = rid_info
                    /\ any_errors' = any_errors
                    /\ IF AlertDetected(an, rid_info)
                       THEN IF Raises(an, rid_info)
                            THEN /\ pc' = "crashed"
                                 /\ UNCHANGED <<sent, delivered, any_alerts>>
                            ELSE /\ sent' = Append(sent, AlertMessage(an, rid_info))
                                 /\ delivered' =
                                        Append(delivered,
                                               send_telegram_message(
                                                   AlertMessage(an, rid_info), post))
                                 /\ any_alerts' = TRUE
                                 /\ pc' = "loop"
                       ELSE /\ IF ALWAYS_SEND_REPORT
                               THEN /\ sent' = Append(sent, SummaryMessage(an, rid_info))
                                    /\ delivered' =
                                           Append(delivered,
                                                  send_telegram_message(
                                                      SummaryMessage(an, rid_info), post))
                               ELSE UNCHANGED <<sent, delivered>>
                            /\ pc' = "loop"
                            /\ UNCHANGED any_alerts
    /\ UNCHANGED <<attempt, max_attempts, resolutions,
                   LOCATIONS, environ, reachable, now, idx, rid_info,
                   thaiwater_info, website_info>>

Next ==
    \/ Tick \/ MainLoop \/ MainRid \/ MainThaiwater
    \/ MainWebsite \/ MainWebsiteHtml \/ MainForecast

Spec == Init /\ [][Next]_vars

(***************************************************************************)
(* analyze_forecast on its own: the payload is drawn from the discharge    *)
(* series of up to MaxSeries days over AnalyzeDischarges (values at, just  *)
(* below and above every cutoff), with or without their time array, and    *)
(* from the seven-day series ScenarioSeries.                               *)
(***************************************************************************)
AnalyzeDischarges == {300, 350, 399, 400, 420, 499, 500, 599, 600, 610}

ScenarioSeries == <<350, 420, 610, 300, 300, 300, 300>>

AnalyzePayloads ==
    UNION {{[kind |-> "daily", ntimes |-> n, river_discharge |-> q] :
                n \in {0, Len(q)}} :
            q \in SeqsUpTo(AnalyzeDischarges, MaxSeries) \cup {ScenarioSeries}}

InitAnalyze ==
    /\ data \in AnalyzePayloads
    /\ pc = "analyze"
    /\ analysis = None
    /\ LOCATIONS = <<StationP1>>
    /\ environ = EnvNames
    /\ reachable = Services
    /\ now = 0
    /\ cache = <<>>
    /\ idx = 1
    /\ rid_info = None
    /\ thaiwater_info = None
    /\ website_info = None
    /\ has_water_level_alert = FALSE
    /\ classified = None
    /\ any_alerts = FALSE
    /\ any_errors = FALSE
    /\ sent = <<>>
    /\ delivered = <<>>
    /\ lastCall = NoCall
    /\ attempt = 0
    /\ max_attempts = DEFAULT_MAX_ATTEMPTS
    /\ resolutions = <<>>

\* analysis = analyze_forecast(data, location["name"]), line 1119.
Analyze ==
    /\ pc = "analyze"
    /\ analysis' = analyze_forecast(data)
    /\ pc' = "analyzed"
    /\ UNCHANGED <<attempt, max_attempts, resolutions,
                   LOCATIONS, environ, reachable, now, cache, idx, rid_info,
                   thaiwater_info, website_info, data, has_water_level_alert,
                   classified, any_alerts, any_errors, sent, delivered, lastCall>>

SpecAnalyze == InitAnalyze /\ [][Analyze]_vars

(***************************************************************************)
(* get_thaiwater_data_with_retry (unnamed/part_000) and the two endpoints  *)
(* of get_rid_hydro1_data, called on their own.  max_attempts is the       *)
(* caller's argument, attempt the loop variable, lastCall.requests the     *)
(* number of HTTP requests put on the wire so far.                         *)
(***************************************************************************)
\* The variables of main() that a call of a single adapter leaves alone.
mainVars == <<LOCATIONS, environ, reachable, idx, rid_info, thaiwater_info,
              website_info, data, analysis, has_water_level_alert, classified,
              any_alerts, any_errors, sent, delivered>>

\* main() is not running (data and website_info are set by each caller).
MainIdle ==
    /\ LOCATIONS = <<StationP1>>
    /\ environ = EnvNames
    /\ reachable = Services
    /\ idx = 1
    /\ rid_info = None
    /\ thaiwater_info = None
    /\ analysis = None
    /\ has_water_level_alert = FALSE
    /\ classified = None
    /\ any_alerts = FALSE
    /\ any_errors = FALSE
    /\ sent = <<>>
    /\ delivered = <<>>

\* What the server (or the network) answers to one HTTP request.
TransportAnswers == {"200", "404", "401", "500", "timeout", "connection_error"}

\* Retry(total, read, connect, status_forcelist): the answers after which the
\* mounted adapter repeats the request.
Retried(answer) == answer \in {"500", "timeout", "connection_error"}

\* session.get on a session of create_retry_session: the request is repeated
\* while the answer is a retried one and retries are left; n counts the
\* requests made.  An exhausted retry raises.
RECURSIVE SessionGet(_, _)
SessionGet(answers, n) ==
    LET answer == answers[n]
    IN  IF ~Retried(answer)
        THEN [kind |-> answer, requests |-> n]
        ELSE IF n < RETRIES + 1
        THEN SessionGet(answers, n + 1)
        ELSE [kind |-> IF answer = "timeout" THEN "Timeout"
                       ELSE "RequestException",
              requests |-> n]

\* The test of both except clauses: sleep and go round again, or give up.
RetryContinues(n, max) == n < max

\* A loop that does not count its attempts.
NextAttemptUncounted(n) == n

\* range(1, max_attempts + 1): the loop variable after attempt n.
NextAttempt(n) == n + 1

InitRetry ==
    /\ MainIdle
    /\ data = None
    /\ website_info = None
    /\ pc \in {"retry_loop", "rid_call"}
    /\ max_attempts \in 0..MaxAttempts
    /\ pc = "rid_call" => max_attempts = DEFAULT_MAX_ATTEMPTS
    /\ attempt = 0
    /\ now = 0
    /\ cache = <<>>
    /\ lastCall = [NoCall EXCEPT !.fn = IF pc = "rid_call" THEN "rid"
                                        ELSE "thaiwater_retry"]
    /\ resolutions = <<>>

\* One iteration of for attempt in range(1, max_attempts + 1).
RetryAttempt ==
    /\ pc = "retry_loop"
    /\ attempt < max_attempts
    /\ attempt' = NextAttempt(attempt)
    /\ \E answers \in [1..(RETRIES + 1) -> TransportAnswers] :
         \E d \in ThaiwaterPayloads :
           LET response == SessionGet(answers, 1)
               requests == lastCall.requests + response.requests
           IN  IF response.kind = "200"
               THEN /\ lastCall' = [lastCall EXCEPT !.ret = d,
                                                    !.requests = requests]
                    /\ pc' = "returned"
               ELSE IF response.kind \in {"404", "401"}
               THEN /\ lastCall' = [lastCall EXCEPT !.requests = requests]
                    /\ pc' = "returned"
               ELSE /\ lastCall' = [lastCall EXCEPT !.requests = requests]
                    /\ pc' = IF RetryContinues(attempt', max_attempts)
                             THEN "retry_loop" ELSE "returned"
    /\ UNCHANGED <<mainVars, now, cache, max_attempts, resolutions>>

\* The loop ran out: return None.
RetryExhausted ==
    /\ pc = "retry_loop"
    /\ attempt >= max_attempts
    /\ pc' = "returned"
    /\ UNCHANGED <<mainVars, now, cache, lastCall, attempt, max_attempts,
                   resolutions>>

\* get_rid_hydro1_data("P.1") on an empty cache: r2 answers the second
\* endpoint if the first gave no valid data point.
RidCall ==
    /\ pc = "rid_call"
    /\ pc' = "returned"
    /\ \E r1 \in RidResponses :
         \E r2 \in (IF RidDataPoints(r1) # <<>> THEN {r1} ELSE RidResponses) :
           LET call == get_rid_hydro1_data("P.1", <<r1, r2>>)
           IN  /\ cache' = call.cache
               /\ lastCall' = [fn |-> "rid", ret |-> call.ret,
                               requests |-> call.requests, hit |-> call.hit]
    /\ UNCHANGED <<mainVars, now, attempt, max_attempts, resolutions>>

NextRetry == RetryAttempt \/ RetryExhausted \/ RidCall

SpecRetry == InitRetry /\ [][NextRetry]_vars

(***************************************************************************)
(* The cache used by resolutions that run in parallel.  _cache is a plain  *)
(* dict and neither get_cached_data nor set_cached_data takes a lock, so a *)
(* resolution is three steps that others may interleave: the lookup, the   *)
(* request, and the store.  Each dict operation is atomic.  Resolutions a  *)
(* and b of get_thaiwater_data("P.1", "G07003") run in parallel; a third   *)
(* one starts after both have returned.                                    *)
(***************************************************************************)
Parallel == {"a", "b"}

Resolvers == Parallel \cup {"later"}

SharedKey == <<"thaiwater", StationP1.station_code, StationP1.agency_code>>

ConcurrentTickSteps == {CACHE_TTL_MINUTES - 1}

\* The answers the parallel resolutions receive: a request error, the empty
\* object, and two observations.
ConcurrentResponses ==
    {[kind |-> "error"], [kind |-> "json", data |-> EmptyPayload]}
    \cup {[kind |-> "json", data |-> [kind |-> "obs", waterlevel |-> v]] :
             v \in {29, 38}}

InitConcurrent ==
    /\ MainIdle
    /\ data = None
    /\ website_info = None
    /\ pc = "concurrent"
    /\ now = 0
    /\ cache = <<>>
    /\ lastCall = NoCall
    /\ attempt = 0
    /\ max_attempts = DEFAULT_MAX_ATTEMPTS
    /\ resolutions = [p \in Resolvers |->
                        [pc |-> IF p = "later" THEN "idle" ELSE "lookup",
                         data |-> None, ret |-> None, hit |-> FALSE,
                         looked_at |-> Missing, stored_at |-> Missing]]

\* cached = get_cached_data(cache_key); if cached: return cached
Lookup(p) ==
    /\ resolutions[p].pc = "lookup"
    /\ LET cached == get_cached_data(SharedKey, CACHE_TTL_MINUTES)
       IN  resolutions' = [resolutions EXCEPT ![p] =
               IF Truthy(cached)
               THEN [@ EXCEPT !.pc = "done", !.ret = cached, !.hit = TRUE,
                              !.looked_at = now]
               ELSE [@ EXCEPT !.pc = "request", !.looked_at = now]]
    /\ UNCHANGED <<mainVars, pc, now, cache, lastCall, attempt, max_attempts>>

\* requests.get(...) up to data = response.json(), or a return of None.
Request(p) ==
    /\ resolutions[p].pc = "request"
    /\ \E resp \in ConcurrentResponses :
         resolutions' = [resolutions EXCEPT ![p] =
             IF resp.kind = "json"
             THEN [@ EXCEPT !.pc = "store", !.data = resp.data]
             ELSE [@ EXCEPT !.pc = "done"]]
    /\ UNCHANGED <<mainVars, pc, now, cache, lastCall, attempt, max_attempts>>

\* set_cached_data(cache_key, data); return data
Store(p) ==
    /\ resolutions[p].pc = "store"
    /\ cache' = set_cached_data(cache, SharedKey, resolutions[p].data)
    /\ resolutions' = [resolutions EXCEPT ![p] =
           [@ EXCEPT !.pc = "done", !.ret = resolutions[p].data,
                     !.stored_at = now]]
    /\ UNCHANGED <<mainVars, pc, now, lastCall, attempt, max_attempts>>

\* The third resolution is issued once a and b have returned.
StartLater ==
    /\ resolutions["later"].pc = "idle"
    /\ \A p \in Parallel : resolutions[p].pc = "done"
    /\ resolutions' = [resolutions EXCEPT !["later"].pc = "lookup"]
    /\ UNCHANGED <<mainVars, pc, now, cache, lastCall, attempt, max_attempts>>

ConcurrentTick ==
    /\ now < CACHE_TTL_MINUTES
    /\ \E d \in ConcurrentTickSteps : now' = now + d
    /\ UNCHANGED <<mainVars, pc, cache, lastCall, attempt, max_attempts,
                   resolutions>>

NextConcurrent ==
    \/ \E p \in Resolvers : Lookup(p)
    \/ \E p \in Resolvers : Request(p)
    \/ \E p \in Resolvers : Store(p)
    \/ StartLater
    \/ ConcurrentTick

SpecConcurrent == InitConcurrent /\ [][NextConcurrent]_vars

(***************************************************************************)
(* parse_chiangmai_api_data called on its own: data is the decoded list of *)
(* items, each of whose four water-level keys is absent or present, and    *)
(* website_info the first station of the result, as main() takes it.       *)
(***************************************************************************)
ParseItems ==
    [station_code : StationCodes, water_level : {Missing, 0, 29},
     waterlevel : {Missing, 0, 31}, wl : {Missing, 33}, value : {Missing, 38}]

InitParse ==
    /\ MainIdle
    /\ data \in SeqsUpTo(ParseItems, MaxItems)
    /\ website_info = None
    /\ pc = "parse"
    /\ now = 0
    /\ cache = <<>>
    /\ lastCall = NoCall
    /\ attempt = 0
    /\ max_attempts = DEFAULT_MAX_ATTEMPTS
    /\ resolutions = <<>>

\* parsed = parse_chiangmai_api_data(data, station_id)
Parse ==
    /\ pc = "parse"
    /\ pc' = "parsed"
    /\ LET parsed == parse_chiangmai_api_data(data, StationP1.web_station_id)
       IN  /\ lastCall' = [fn |-> "parse_chiangmai_api_data", ret |-> parsed,
                           requests |-> 0, hit |-> FALSE]
           /\ website_info' = IF parsed = None THEN None ELSE parsed.stations[1]
    /\ UNCHANGED <<LOCATIONS, environ, reachable, now, cache, idx, rid_info,
                   thaiwater_info, data, analysis, has_water_level_alert,
                   classified, any_alerts, any_errors, sent, delivered,
                   attempt, max_attempts, resolutions>>

SpecParse == InitParse /\ [][Parse]_vars

(***************************************************************************)
(* Properties.                                                             *)
(***************************************************************************)
\* The iteration for location idx has run to its end (or raised).
IterationDone == idx >= 1 /\ pc \in {"loop", "crashed"}

\* The decision of lines 1128-1158 was reached in this iteration.
DecisionReached == IterationDone /\ analysis # None

ValidReading(info) ==
    info # None /\ info.water_level # Missing /\ validate_water_level(info.water_level)

\* The reading of the highest-trust adapter that delivered a valid one.
HighestTrustReading ==
    IF ValidReading(rid_info) THEN rid_info
    ELSE IF ValidReading(thaiwater_info) THEN thaiwater_info
    ELSE IF ValidReading(website_info) THEN website_info
    ELSE None

RealTimeSeverity(rid) ==
    IF rid = None THEN "normal" ELSE get_water_level_alert_status(rid.water_level)

ForecastSeverity(an) ==
    IF an # None /\ an.has_alerts THEN an.highest_alert.level ELSE "normal"

MaxSeverity(a, b) == IF priority(a) >= priority(b) THEN a ELSE b

AlertsSent == {i \in 1..Len(sent) : sent[i].kind = "alert"}

\* The severity the messages of this iteration carry.
OverallSeverity ==
    IF AlertsSent = {} THEN "normal"
    ELSE sent[CHOOSE i \in AlertsSent : TRUE].level

\* C1: when at least one adapter delivered a valid reading, the reading the
\* real-time alert decision classifies is the one of the highest-trust adapter
\* that delivered a valid reading.
C1_HighestTrustClassified ==
    (DecisionReached /\ HighestTrustReading # None)
        => classified = HighestTrustReading

\* C2: when the primary adapter fails and the secondary one delivers a valid
\* value, the reading classified for the real-time severity is the secondary's,
\* tagged with the secondary's quality.
C2_SecondaryClassified ==
    (DecisionReached /\ rid_info = None /\ ValidReading(thaiwater_info))
        => /\ classified = thaiwater_info
           /\ classified.quality = "medium"
           /\ has_water_level_alert = (thaiwater_info.water_level >= WL_WATCH)

ThaiwaterKey == <<"thaiwater", location.station_code, location.agency_code>>

\* C3: an adapter whose candidate value lies outside the plausibility band is
\* treated as failed: when the ThaiWater payload just used carries an
\* observation outside [0.5, 10.0], no ThaiWater reading is accepted.
C3_OutOfBandIsFailure ==
    [][(/\ pc = "thaiwater" /\ pc' = "website"
        /\ lastCall'.fn = "thaiwater"
        /\ Truthy(lastCall'.ret)
        /\ lastCall'.ret.kind = "obs"
        /\ lastCall'.ret.waterlevel # Missing
        /\ ~validate_water_level(lastCall'.ret.waterlevel))
          => thaiwater_info' = None]_vars

\* C4: every reading an adapter returns as a success carries a numeric water
\* level within [0.5, 10.0]; a zero or missing value is never accepted.
C4_ReadingsInBand ==
    \A info \in {rid_info, thaiwater_info, website_info} :
        info # None => ValidReading(info)

\* The cache keys the adapters of the current location use, with their TTL.
KeyOf(fn) ==
    CASE fn = "rid" -> <<"rid_hydro1", location.station_code>>
      [] fn = "thaiwater" -> ThaiwaterKey
      [] fn = "website" -> <<"chiangmai", location.web_station_id>>
      [] fn = "forecast" -> <<"forecast", location.coord>>

TtlOf(fn) == IF fn = "forecast" THEN FORECAST_TTL_MINUTES ELSE CACHE_TTL_MINUTES

\* The step of main that calls adapter fn and comes back from it.
CallStep(fn) ==
    /\ lastCall'.fn = fn
    /\ CASE fn = "rid" -> pc = "rid" /\ pc' = "thaiwater"
         [] fn = "thaiwater" -> pc = "thaiwater" /\ pc' = "website"
         [] fn = "website" -> pc \in {"website", "website_html"} /\ pc' = "forecast"
         [] fn = "forecast" -> pc = "forecast" /\ pc' # "forecast"

\* An entry a successful fetch stored less than the TTL ago.
FreshEntry(fn) ==
    /\ KeyOf(fn) \in DOMAIN cache
    /\ Truthy(cache[KeyOf(fn)].data)
    /\ now - cache[KeyOf(fn)].timestamp < TtlOf(fn)

ExpiredEntry(fn) ==
    /\ KeyOf(fn) \in DOMAIN cache
    /\ now - cache[KeyOf(fn)].timestamp >= TtlOf(fn)

\* The value a call of fn hands back for the cached value v.
HitValue(fn, v) == IF fn = "website" THEN [stations |-> <<v>>] ELSE v

\* C5: a resolution issued within the TTL after a successful one (one that
\* stored a non-empty value) makes no network request, leaves the cache as it
\* is and returns the cached value.
C5_CacheIdempotence ==
    [][\A fn \in Providers :
        (CallStep(fn) /\ FreshEntry(fn))
          => /\ lastCall'.requests = 0
             /\ lastCall'.ret = HitValue(fn, cache[KeyOf(fn)].data)
             /\ cache' = cache]_vars

C5_Witness ==
    /\ idx = 2 /\ now > 0
    /\ lastCall.fn = "thaiwater" /\ lastCall.hit /\ lastCall.requests = 0
    /\ thaiwater_info # None

\* C6: a resolution issued once the TTL of the entry has elapsed goes to the
\* network again and returns either nothing or a value fetched and stored by
\* this very call, never the stale entry.
C6_CacheExpiry ==
    [][\A fn \in Providers :
        (CallStep(fn) /\ ExpiredEntry(fn))
          => /\ lastCall'.requests >= 1
             /\ ~lastCall'.hit
             /\ \/ lastCall'.ret = None
                \/ /\ cache'[KeyOf(fn)].timestamp = now
                   /\ lastCall'.ret = HitValue(fn, cache'[KeyOf(fn)].data)
                \/ /\ fn = "website"
                   /\ cache'[KeyOf(fn)].timestamp = now
                   /\ lastCall'.ret.stations[1] = cache'[KeyOf(fn)].data]_vars

\* A stale entry is still in the cache after a call that failed.
C6_Witness ==
    /\ idx = 2 /\ pc = "website"
    /\ lastCall.fn = "thaiwater" /\ lastCall.ret = None /\ lastCall.requests >= 1
    /\ ThaiwaterKey \in DOMAIN cache
    /\ Truthy(cache[ThaiwaterKey].data)
    /\ now - cache[ThaiwaterKey].timestamp >= CACHE_TTL_MINUTES

\* C7: the severity of the cycle is max(forecast severity, real-time
\* severity), and an alert of that severity is sent when it is above normal.
C7_OverallIsMax ==
    DecisionReached =>
        LET m == MaxSeverity(ForecastSeverity(analysis), RealTimeSeverity(rid_info))
        IN  /\ pc # "crashed"
            /\ OverallSeverity = m
            /\ priority(m) > 0 => AlertsSent # {}

\* C8: an unavailable forecast does not suppress the water-level alert, and
\* an unavailable real-time reading does not suppress the forecast alert.
C8_NoSuppression ==
    IterationDone =>
        /\ (analysis = None /\ HasWaterLevelAlert(rid_info)) => AlertsSent # {}
        /\ (analysis # None /\ analysis.has_alerts /\ HighestTrustReading = None)
              => AlertsSent # {}

\* C9: when no real-time adapter delivers a valid reading, the cycle does not
\* raise, sends no alert unless the forecast has one, and its severity is the
\* forecast's own.
C9_AbsenceNeverRaises ==
    (IterationDone /\ HighestTrustReading = None)
        => /\ pc # "crashed"
           /\ OverallSeverity = ForecastSeverity(analysis)

C9_Witness ==
    /\ IterationDone /\ HighestTrustReading = None
    /\ location.station_code # "" /\ {"rid", "forecast"} \subseteq reachable
    /\ analysis # None /\ ~analysis.has_alerts
    /\ Len(sent) = 1 /\ sent[1].kind = "summary"

\* The rank of the outcome main reaches for an analysis and a RID reading:
\* the severity of the alert sent, 0 without an alert.
OutcomeRank(an, rid) ==
    IF AlertDetected(an, rid) /\ ~Raises(an, rid)
    THEN priority(an.highest_alert.level) ELSE 0

Analyses == {analyze_forecast(d) : d \in ForecastPayloads} \ {None}
RidReadings == {None} \cup {RidResult("P.1", v) : v \in {w \in Levels : validate_water_level(w)}}

\* C10: fuse is monotonic: a cycle ends with an alert state whose severity is
\* not lower than that of any cycle whose forecast severity and real-time
\* severity are both not higher.
C10_FuseMonotonic ==
    DecisionReached =>
        /\ pc # "crashed"
        /\ \A an \in Analyses : \A rid \in RidReadings :
             (/\ priority(ForecastSeverity(an)) <= priority(ForecastSeverity(analysis))
              /\ priority(RealTimeSeverity(rid)) <= priority(RealTimeSeverity(rid_info))
              /\ ~Raises(an, rid))
                => OutcomeRank(an, rid) <= priority(OverallSeverity)

\* The severity the two channels of this iteration call for.
FusedSeverity ==
    MaxSeverity(ForecastSeverity(analysis), RealTimeSeverity(rid_info))

\* C11: notification policy: when the decision is reached, a severity above
\* normal yields exactly one alert message sent with sound, otherwise (the
\* always-report flag being on) exactly one summary sent silently, otherwise
\* nothing; one outcome per station and cycle.
C11_NotificationPolicy ==
    DecisionReached =>
        IF priority(FusedSeverity) > 0
        THEN /\ Len(sent) = 1
             /\ sent[1].kind = "alert"
             /\ ~sent[1].disable_notification
        ELSE IF ALWAYS_SEND_REPORT
        THEN /\ Len(sent) = 1
             /\ sent[1].kind = "summary"
             /\ sent[1].disable_notification
        ELSE sent = <<>>

\* C12: the alert keeps the channel of the maximum: its alert level is the
\* real-time reading's classification when that is the higher severity, and
\* the classification of the forecast's highest point otherwise.
C12_ChannelRetained ==
    \A i \in AlertsSent :
        sent[i].level =
            IF priority(RealTimeSeverity(rid_info)) > priority(ForecastSeverity(analysis))
            THEN RealTimeSeverity(rid_info)
            ELSE analysis.highest_alert.level

\* The highest severity whose cutoff does not exceed the discharge.
Cutoff(level) ==
    CASE level = "critical" -> Q_CRITICAL
      [] level = "warning" -> Q_WARNING
      [] level = "watch" -> Q_WATCH

SeverityByCutoff(discharge) ==
    LET reached == {l \in {"watch", "warning", "critical"} : Cutoff(l) <= discharge}
    IN  IF reached = {} THEN "normal"
        ELSE CHOOSE l \in reached : \A k \in reached : Cutoff(k) <= Cutoff(l)

Analyzed == pc = "analyzed" /\ analysis # None

\* C13: analyze_forecast gives every point the highest severity whose cutoff
\* does not exceed its discharge, the forecast severity is the maximum over
\* the points, and for the series 350, 420, 610, 300, 300, 300, 300 day 2 is
\* critical, is the highest point and makes the forecast critical.
C13_ForecastClassification ==
    /\ (pc = "analyzed" /\ data.ntimes > 0 /\ data.river_discharge # <<>>)
          => analysis # None
    /\ Analyzed =>
        LET fd == analysis.forecast_data
        IN  /\ Len(fd) = Len(data.river_discharge)
            /\ \A i \in 1..Len(fd) :
                  /\ fd[i].discharge = data.river_discharge[i]
                  /\ fd[i].level = SeverityByCutoff(data.river_discharge[i])
            /\ \A i \in 1..Len(fd) :
                  priority(fd[i].level) <= priority(ForecastSeverity(analysis))
            /\ \E i \in 1..Len(fd) :
                  fd[i].level = ForecastSeverity(analysis)
            /\ data.river_discharge = ScenarioSeries
                  => /\ fd[3].level = "critical"
                     /\ analysis.highest_alert = fd[3]
                     /\ analysis.highest_alert.day = 2
                     /\ ForecastSeverity(analysis) = "critical"

C13_Witness ==
    /\ Analyzed
    /\ data.river_discharge = ScenarioSeries
    /\ analysis.highest_alert.discharge = 610

\* C14: the highest-severity point has the maximum severity of the series,
\* and among the days of that severity it is the earliest.
C14_EarliestOfMaximum ==
    (Analyzed /\ analysis.has_alerts) =>
        LET fd == analysis.forecast_data
            h == analysis.highest_alert
        IN  /\ \E i \in 1..Len(fd) : fd[i] = h
            /\ \A i \in 1..Len(fd) :
                  /\ priority(fd[i].level) <= priority(h.level)
                  /\ priority(fd[i].level) = priority(h.level) => h.day <= fd[i].day

\* Two days of the maximum severity, the earlier one selected.
C14_Witness ==
    /\ Analyzed
    /\ data.river_discharge = <<300, 600, 610>>
    /\ analysis.highest_alert.day = 1
    /\ analysis.highest_alert.discharge = 600

\* A forecast payload with no point: empty, without "daily", or with its time
\* array or its discharge array missing or empty.
NoForecastData(d) ==
    \/ d = EmptyPayload
    \/ d.kind # "daily"
    \/ d.ntimes = 0
    \/ d.river_discharge = <<>>

\* C15: a forecast payload with no point gives no analysis, and the cycle
\* reports it with the error message, never with a summary.
C15_NoForecastData ==
    (IterationDone /\ data # None /\ NoForecastData(data))
        => /\ analysis = None
           /\ sent = <<ErrorMessage>>
           /\ any_errors

\* The discharge array is there, the time array is not.
C15_Witness ==
    /\ IterationDone /\ data # None /\ data # EmptyPayload
    /\ data.kind = "daily" /\ data.ntimes = 0 /\ data.river_discharge # <<>>
    /\ analysis = None
    /\ sent = <<ErrorMessage>>

\* C16: whatever the sources answer, the cycle ends without an uncaught
\* exception.
C16_CycleCompletes == pc # "crashed"

\* C17: when no source yields data for the station (no real-time reading and
\* no usable forecast), the one message of the iteration is the error message
\* and no summary is sent.
C17_TotalUnavailabilityIsError ==
    (/\ IterationDone
     /\ rid_info = None /\ thaiwater_info = None /\ website_info = None
     /\ (data = None \/ NoForecastData(data)))
        => /\ pc = "loop"
           /\ analysis = None
           /\ sent = <<ErrorMessage>>
           /\ any_errors

C17_Witness ==
    /\ IterationDone
    /\ location.station_code # ""
    /\ reachable \cap Providers = {}
    /\ rid_info = None /\ thaiwater_info = None /\ website_info = None
    /\ sent = <<ErrorMessage>>

\* C18: with no station configured the cycle does not end as a normal
\* completion.
C18_NoStationsIsHardFailure == ~(LOCATIONS = <<>> /\ pc = "exit0")

C20_MissingCredentials ==
    [][/\ (/\ pc = "thaiwater"
           /\ "THAIWATER_API_KEY" \notin environ
           /\ location.station_code # "" /\ location.agency_code # "")
          => /\ pc' = "website"
             /\ lastCall'.fn = "thaiwater"
             /\ \/ thaiwater_info' = None
                \/ thaiwater_info'.source = "ThaiWater API"
       /\ ("TELEGRAM_BOT_TOKEN" \notin environ \/ "TELEGRAM_CHAT_ID" \notin environ)
          => /\ Len(delivered') = Len(sent')
             /\ \A i \in 1..Len(delivered') : ~delivered'[i]
             /\ (pc = "forecast" /\ (analysis' = None \/ ~Raises(analysis', rid_info)))
                   => pc' = "loop" /\ Len(sent') = 1]_vars

\* A message was handed to send_telegram_message, which returned False; the
\* Bot API itself was reachable.
C20_Witness ==
    /\ IterationDone /\ pc = "loop"
    /\ "TELEGRAM_BOT_TOKEN" \notin environ
    /\ "telegram" \in reachable
    /\ Len(sent) = 1
    /\ delivered = <<FALSE>>

\* C21: as amended.  get_thaiwater_data_with_retry calls session.get at most
\* max_attempts times, and each call puts at most RETRIES + 1 requests on the
\* wire, so the function issues at most max_attempts * (RETRIES + 1) requests;
\* the loop is left as soon as attempt reaches max_attempts, and the function
\* returns a payload or None.  get_rid_hydro1_data issues at most one request
\* per endpoint, hence at most two, and returns a result or None.
C21_BoundedRetry ==
    /\ attempt <= max_attempts
    /\ lastCall.fn = "thaiwater_retry" =>
         /\ lastCall.requests <= attempt * (RETRIES + 1)
         /\ lastCall.requests >= attempt
         /\ pc = "retry_loop" => lastCall.ret = None
         /\ pc = "returned" =>
              /\ lastCall.ret = None \/ lastCall.ret \in ThaiwaterPayloads
              /\ lastCall.ret # None => attempt >= 1
    /\ lastCall.fn = "rid" =>
         /\ lastCall.requests <= 2
         /\ pc = "returned" =>
              \/ lastCall.ret = None /\ lastCall.requests = 2
              \/ /\ lastCall.ret # None
                 /\ validate_water_level(lastCall.ret.water_level)

\* Every attempt exhausts its retries on timeouts: None after
\* max_attempts * (RETRIES + 1) requests.
C21_Witness ==
    /\ pc = "returned"
    /\ lastCall.fn = "thaiwater_retry"
    /\ max_attempts = DEFAULT_MAX_ATTEMPTS
    /\ attempt = max_attempts
    /\ lastCall.ret = None
    /\ lastCall.requests = max_attempts * (RETRIES + 1)

\* C21: as stated.  get_thaiwater_data_with_retry issues at most max_attempts
\* requests.
C21_AtMostMaxAttemptsRequests ==
    lastCall.fn = "thaiwater_retry" => lastCall.requests <= max_attempts

\* The parallel resolutions that stored a non-empty value.
Stored == {p \in Parallel : /\ resolutions[p].stored_at # Missing
                            /\ Truthy(resolutions[p].data)}

\* C22: when two resolutions of one key run in parallel and one of them has
\* stored a value, a later lookup within the TTL of that store returns a value
\* that one of the two stored, and does not invoke the adapter again.
C22_ConcurrentCacheUse ==
    LET later == resolutions["later"]
    IN  (/\ pc = "concurrent"
         /\ later.looked_at # Missing
         /\ \E p \in Stored :
               later.looked_at - resolutions[p].stored_at < CACHE_TTL_MINUTES)
        => /\ later.hit
           /\ \E p \in Stored : later.ret = resolutions[p].data

\* C23: an entry is valid exactly while its age is below the TTL its caller
\* supplies: a call that finds a non-empty entry of its key is answered from
\* the cache if and only if now - timestamp < TTL, the TTL being 15 minutes
\* for the real-time adapters and 60 minutes for the forecast; at an age equal
\* to the TTL the entry is no longer used.
C23_TtlBoundary ==
    [][\A fn \in Providers :
        (/\ CallStep(fn)
         /\ KeyOf(fn) \in DOMAIN cache
         /\ Truthy(cache[KeyOf(fn)].data))
          => LET age == now - cache[KeyOf(fn)].timestamp
             IN  /\ lastCall'.hit <=> age < TtlOf(fn)
                 /\ lastCall'.hit <=> lastCall'.requests = 0
                 /\ (fn = "forecast" /\ age < FORECAST_TTL_MINUTES) => lastCall'.hit
                 /\ (fn # "forecast" /\ age >= CACHE_TTL_MINUTES) => ~lastCall'.hit]_vars

\* A forecast entry of age 15 minutes, the default TTL, answers the call.
C23_Witness ==
    /\ idx = 2
    /\ lastCall.fn = "forecast" /\ lastCall.hit
    /\ now - cache[KeyOf("forecast")].timestamp = CACHE_TTL_MINUTES

\* The water-level value the cached value v of a real-time source carries, or
\* Missing if it carries none.
CachedLevel(key, v) ==
    IF key[1] = "thaiwater"
    THEN IF Truthy(v) /\ v.kind = "obs" THEN v.waterlevel ELSE Missing
    ELSE v.water_level

\* C24: every water-level value a real-time source has placed in the cache
\* has passed the plausibility check, so that a cache hit cannot hand back a
\* value the check would reject.
C24_ValidatedBeforeStore ==
    \A key \in DOMAIN cache :
        key[1] \in {"rid_hydro1", "thaiwater", "chiangmai"}
          => LET level == CachedLevel(key, cache[key].data)
             IN  level # Missing => validate_water_level(level)

\* The value of the first key of the prioritized list that is present.
RECURSIVE FirstPresent(_)
FirstPresent(vals) ==
    IF Len(vals) = 1 \/ Head(vals) # Missing THEN Head(vals)
    ELSE FirstPresent(Tail(vals))

\* C25: the water level extracted from an item is the value of the first
\* present key of water_level, waterlevel, wl, value: a present key holding
\* zero is the extracted value and no lower-priority key replaces it, so every
\* station of the result carries the first present value of an item of its
\* station.
C25_FirstPresentKey ==
    (pc = "parsed" /\ lastCall.ret # None)
      => \A i \in DOMAIN lastCall.ret.stations :
           \E j \in DOMAIN data :
              /\ data[j].station_code = lastCall.ret.stations[i].station_code
              /\ lastCall.ret.stations[i].water_level =
                    FirstPresent(<<data[j].water_level, data[j].waterlevel,
                                   data[j].wl, data[j].value>>)

\* The messages the data of the station in hand call for (lines 1107-1158).
OwnOutcome(an, rid) ==
    IF an = None THEN <<ErrorMessage>>
    ELSE IF AlertDetected(an, rid) THEN <<AlertMessage(an, rid)>>
    ELSE IF ALWAYS_SEND_REPORT THEN <<SummaryMessage(an, rid)>>
    ELSE <<>>

\* C26: the outcome of a station depends on that station's own reading,
\* forecast and always-report flag only: an iteration that ends has sent what
\* its own data call for, and no station is left without its outcome because
\* of what an earlier station's data led to.
C26_StationIndependence ==
    /\ (IterationDone /\ pc # "crashed") => sent = OwnOutcome(analysis, rid_info)
    /\ pc = "crashed" => idx = Len(LOCATIONS)

\* C27: in every result of analyze_forecast, has_alerts is true exactly when
\* at least one point is above normal, alerts is exactly the sub-sequence of
\* the points above normal, in date order, and highest_alert is present
\* exactly when has_alerts is true.
C27_AnalysisConsistent ==
    Analyzed =>
        LET fd == analysis.forecast_data
            al == analysis.alerts
            above == {i \in 1..Len(fd) : fd[i].discharge >= Q_WATCH}
        IN  /\ analysis.has_alerts <=> above # {}
            /\ Len(al) = Cardinality(above)
            /\ \A k \in 1..Len(al) : \E i \in above : al[k] = fd[i]
            /\ \A k \in 1..(Len(al) - 1) : al[k].day < al[k + 1].day
            /\ ("highest_alert" \in DOMAIN analysis) <=> analysis.has_alerts

\* A series with a watch day, a normal day and a critical day: two alerts.
C27_Witness ==
    /\ Analyzed
    /\ data.river_discharge = <<420, 300, 610>>
    /\ Len(analysis.alerts) = 2
    /\ analysis.alerts[1].day = 0 /\ analysis.alerts[2].day = 2

\* The fetch of provider fn made by this step gave main nothing to use.
FetchFailed(fn) ==
    /\ ~lastCall'.hit
    /\ CASE fn = "rid" -> rid_info' = None
         [] fn = "thaiwater" -> thaiwater_info' = None
         [] fn = "website" -> website_info' = None
         [] fn = "forecast" -> analysis' = None

\* C28: a fetch that fails (request error, 401 or 404, no valid data point,
\* payload that cannot be parsed) leaves the cache as it was, so that the next
\* resolution invokes the adapter again.
C28_FailedFetchLeavesCache ==
    [][\A fn \in Providers :
        (CallStep(fn) /\ FetchFailed(fn)) => cache' = cache]_vars

\* C29: for each station of a cycle at most one notification is sent, and an
\* iteration ends with exactly one of the error message, the alert message
\* and the summary message, or with none when the always-report flag is off
\* and there is no alert.
C29_ExactlyOneNotification ==
    /\ Len(sent) <= 1
    /\ IterationDone =>
         \/ /\ Len(sent) = 1
            /\ sent[1].kind \in {"error", "alert", "summary"}
         \/ /\ sent = <<>>
            /\ ~ALWAYS_SEND_REPORT
            /\ analysis # None
            /\ ~AlertDetected(analysis, rid_info)

\* C30: a cache hit yields the reading the populating fetch gave.  The fetch
\* that populates the cache stores the very reading main takes from its
\* result (the result itself for RID HYDRO-1, the first station of the list
\* for the Chiang Mai adapter), and a hit hands main the stored reading, as
\* the result for RID HYDRO-1 and as a one-element list for Chiang Mai, and
\* leaves the cache as it is.
C30_HitYieldsSameReading ==
    [][\A fn \in {"rid", "website"} :
        CallStep(fn) =>
          LET info == IF fn = "rid" THEN rid_info' ELSE website_info'
              key == KeyOf(fn)
          IN  /\ (~lastCall'.hit /\ lastCall'.ret # None)
                    => /\ key \in DOMAIN cache'
                       /\ cache'[key].data = info
                       /\ cache'[key].timestamp = now
                       /\ lastCall'.ret = HitValue(fn, info)
                          \/ (fn = "website" /\ lastCall'.ret.stations[1] = info)
              /\ lastCall'.hit
                    => /\ key \in DOMAIN cache
                       /\ info = cache[key].data
                       /\ lastCall'.ret = HitValue(fn, info)
                       /\ cache' = cache]_vars

\* The second iteration takes the Chiang Mai reading from the cache.
C30_Witness ==
    /\ idx = 2 /\ pc = "forecast"
    /\ lastCall.fn = "website" /\ lastCall.hit
    /\ lastCall.ret = [stations |-> <<website_info>>]
    /\ website_info = cache[KeyOf("website")].data

====
